---- MODULE Spec2Model ----
(***************************************************************************)
(* Model of CodingTimeMonitor (src/coding_monitor.py): the polling loop of *)
(* start_monitoring, the classification is_coding_app, and the focus-mode  *)
(* controller enable_deep_mode with its two remote actions.                *)
(*                                                                         *)
(* Time is time.time() on an integer grid.  Application names and patterns *)
(* are sequences of one-character strings, so that lower() and the         *)
(* substring test of is_coding_app are computed, not assumed.              *)
(***************************************************************************)
EXTENDS Integers, Sequences, FiniteSets, TLC

\* ------------------------------------------------------------------ bounds
\* time.time() when start_monitoring begins
StartTime == 1
\* the model stops the clock here
MaxTime == 6
\* longest time one loop iteration (sleep plus blocking calls) may take
MaxSleep == 2
\* longest delay between the loop's clock read and enable_deep_mode's own
MaxLatency == 1
\* number of enable_deep_mode calls remembered by the call log
MaxCalls == 3

\* Python's None for app_start_time (every real time is >= 0)
None == 0 - 1

\* ------------------------------------------------------------ names/strings
EmptyName == << >>
Unknown == <<"U", "n", "k", "n", "o", "w", "n">>
Code == <<"C", "o", "d", "e">>
Xcode == <<"X", "c", "o", "d", "e">>
Finder == <<"F", "i", "n", "d", "e", "r">>
Vim == <<"V", "i", "m">>
unknownPattern == <<"u", "n", "k", "n", "o", "w", "n">>

\* ------------------------------------------------------------------ sampler
\* what one run of the osascript command can come to: Popen or communicate
\* raises, or the process ends with an exit status, its stdout and its stderr
Ran(exit, stdout, stderr) ==
  [raised |-> FALSE, exit |-> exit, stdout |-> stdout, stderr |-> stderr]

Raised == [raised |-> TRUE, exit |-> 0, stdout |-> << >>, stderr |-> << >>]

ErrorText == <<"e", "r", "r", "\n">>

Queries ==
  { Ran(0, Code \o <<"\n">>, << >>),
    Ran(0, Xcode \o <<"\n">>, << >>),
    Ran(0, Finder \o <<"\n">>, << >>),
    Ran(0, <<"\n">>, << >>),
    Ran(1, << >>, << >>),
    Ran(1, << >>, ErrorText),
    Raised }

\* str.strip(): the text without its leading and trailing whitespace
Whitespace == {" ", "\n"}

strip(s) ==
  LET keep == {i \in 1..Len(s) : s[i] \notin Whitespace}
  IN IF keep = {} THEN << >>
     ELSE SubSeq(s, CHOOSE i \in keep : \A j \in keep : i <= j,
                    CHOOSE i \in keep : \A j \in keep : i >= j)

\* get_active_app (lines 86-101): "Unknown" when the command raises or
\* writes to stderr, else the stripped stdout
get_active_app(q) ==
  IF q.raised THEN Unknown
  ELSE IF q.stderr # << >> THEN Unknown
  ELSE strip(q.stdout)

\* what get_active_app can hand to the loop: the stripped name (possibly
\* empty) or the sentinel "Unknown"
SampleNames == {get_active_app(q) : q \in Queries}

\* get_active_app over the queries in use, computed once
Sampled == [q \in Queries |-> get_active_app(q)]

\* the coding_apps lists the configuration file may hold
PatternSets == { {Code, Vim}, {EmptyName}, {unknownPattern} }

\* str.lower() on the alphabet in use
LowerChar(c) ==
  CASE c = "C" -> "c"
    [] c = "F" -> "f"
    [] c = "U" -> "u"
    [] c = "V" -> "v"
    [] c = "X" -> "x"
    [] OTHER -> c

lower(s) == [i \in 1..Len(s) |-> LowerChar(s[i])]

\* Python's `a in b` for strings: a is a contiguous substring of b
IsSubstring(a, b) ==
  \E i \in 0..(Len(b) - Len(a)) : SubSeq(b, i + 1, i + Len(a)) = a

\* is_coding_app: any(app.lower() in app_name.lower() for app in coding_apps)
is_coding_app(coding_apps, app_name) ==
  \E app \in coding_apps : IsSubstring(lower(app), lower(app_name))

\* is_coding_app over the pattern sets and names in use, computed once
CodingNames ==
  [ps \in PatternSets |-> {n \in SampleNames : is_coding_app(ps, n)}]

IsCoding(coding_apps, app_name) == app_name \in CodingNames[coding_apps]

\* ------------------------------------------------------------ configuration
\* a configuration holding every key; absent names the keys the loaded
\* mapping lacks (none here)
Configs ==
  [ slack_token : {"", "xoxp"},
    coding_apps : PatternSets,
    deep_mode_threshold_seconds : {2, 3},
    check_interval_seconds : {1, 2},
    status_update_interval_seconds : {1, 2},
    absent : {{}} ]

\* load_config returns the mapping read from the file as it is (lines
\* 77-81), so a key the file lacks is absent from self.config.  __init__
\* reads coding_apps and deep_mode_threshold_seconds (lines 50-51), so the
\* loop starts only with those two present; any other key may be absent
OptionalKeys ==
  {"slack_token", "check_interval_seconds", "status_update_interval_seconds"}

LoadedConfigs ==
  Configs \cup {[c EXCEPT !.absent = {k}] : c \in Configs, k \in OptionalKeys}

\* whether self.config[key] finds the key (else it raises KeyError)
HasKey(cfg, key) == key \notin cfg.absent

\* what one request to the Slack API can come to: the response says ok, or
\* it fails (the response is not ok, or requests.post / response.json
\* raises: both end in `return False`); without a token no request is sent
\* and there is nothing to answer
Responses(cfg) ==
  IF cfg.slack_token = "" THEN {"unsent"} ELSE {"ok", "failed"}

\* ------------------------------------------------------------------- state
VARIABLES
  config,                  \* self.config, fixed once loaded
  current_app,             \* self.current_app
  app_start_time,          \* self.app_start_time (None or a time)
  continuous_coding_time,  \* self.continuous_coding_time
  total_coding_time,       \* self.total_coding_time
  deep_mode_active,        \* self.deep_mode_active
  last_status_update,      \* self.last_status_update
  clock,                   \* the latest value time.time() returned
  last_app_check,          \* start_monitoring's local last_app_check
  run,                     \* history: the current run of coding ticks
  ev,                      \* history: the last operation and its pre-state
  calls,                   \* history: the latest direct enable_deep_mode calls
  last_success,            \* history: the time of the latest call of
                           \* enable_deep_mode in which a remote action
                           \* succeeded (None: no such call yet)
  pc,                      \* where start_monitoring is: "loop", "stopped"
                           \* (KeyboardInterrupt) or "crashed" (line 280)
  final_report             \* the total logged by line 279 (None: not logged)

vars == << config, current_app, app_start_time, continuous_coding_time,
           total_coding_time, deep_mode_active, last_status_update, clock,
           last_app_check, run, ev, calls, last_success, pc, final_report >>

\* ----------------------------------------------------------- remote actions
\* set_slack_dnd without the token test of line 115: the request is sent
\* with an empty bearer token
set_slack_dnd_NoTokenCheck(cfg, resp) ==
  [ok |-> (resp = "ok"), io |-> 1]

\* set_slack_dnd: False without a request when no token is configured,
\* else True exactly when the response says ok
set_slack_dnd(cfg, resp) ==
  IF cfg.slack_token = ""
    THEN [ok |-> FALSE, io |-> 0]
    ELSE [ok |-> (resp = "ok"), io |-> 1]

\* set_slack_status: the same shape as set_slack_dnd
set_slack_status(cfg, resp) ==
  IF cfg.slack_token = ""
    THEN [ok |-> FALSE, io |-> 0]
    ELSE [ok |-> (resp = "ok"), io |-> 1]

\* --------------------------------------------------------- enable_deep_mode
\* the test of line 184 with >= for >
NotDebounced_Inclusive(cfg, active, last, now) ==
  ~active \/ (now - last >= cfg.status_update_interval_seconds)

\* the test of line 184: deep mode is off, or the last update is too old
NotDebounced(cfg, active, last, now) ==
  ~active \/ (now - last > cfg.status_update_interval_seconds)

\* enable_deep_mode, not recording the time of a successful update
enable_deep_mode_NoStamp(cfg, active, last, now, r1, r2) ==
  IF NotDebounced(cfg, active, last, now)
    THEN LET dnd_success == set_slack_dnd(cfg, r1)
             status_success == set_slack_status(cfg, r2)
         IN IF dnd_success.ok \/ status_success.ok
              THEN [active |-> TRUE, last |-> last, ret |-> TRUE,
                    dnd |-> 1, status |-> 1,
                    dnd_ok |-> dnd_success.ok, status_ok |-> status_success.ok,
                    io |-> dnd_success.io + status_success.io]
              ELSE [active |-> active, last |-> last, ret |-> FALSE,
                    dnd |-> 1, status |-> 1,
                    dnd_ok |-> dnd_success.ok, status_ok |-> status_success.ok,
                    io |-> dnd_success.io + status_success.io]
    ELSE [active |-> active, last |-> last, ret |-> TRUE,
          dnd |-> 0, status |-> 0, dnd_ok |-> FALSE, status_ok |-> FALSE,
          io |-> 0]

\* enable_deep_mode, asking for both remote actions to succeed
enable_deep_mode_BothNeeded(cfg, active, last, now, r1, r2) ==
  IF NotDebounced(cfg, active, last, now)
    THEN LET dnd_success == set_slack_dnd(cfg, r1)
             status_success == set_slack_status(cfg, r2)
         IN IF dnd_success.ok /\ status_success.ok
              THEN [active |-> TRUE, last |-> now, ret |-> TRUE,
                    dnd |-> 1, status |-> 1,
                    dnd_ok |-> dnd_success.ok, status_ok |-> status_success.ok,
                    io |-> dnd_success.io + status_success.io]
              ELSE [active |-> active, last |-> last, ret |-> FALSE,
                    dnd |-> 1, status |-> 1,
                    dnd_ok |-> dnd_success.ok, status_ok |-> status_success.ok,
                    io |-> dnd_success.io + status_success.io]
    ELSE [active |-> active, last |-> last, ret |-> TRUE,
          dnd |-> 0, status |-> 0, dnd_ok |-> FALSE, status_ok |-> FALSE,
          io |-> 0]

\* enable_deep_mode, leaving deep mode when both remote actions fail
enable_deep_mode_ClearOnFail(cfg, active, last, now, r1, r2) ==
  IF NotDebounced(cfg, active, last, now)
    THEN LET dnd_success == set_slack_dnd(cfg, r1)
             status_success == set_slack_status(cfg, r2)
         IN IF dnd_success.ok \/ status_success.ok
              THEN [active |-> TRUE, last |-> now, ret |-> TRUE,
                    dnd |-> 1, status |-> 1,
                    dnd_ok |-> dnd_success.ok, status_ok |-> status_success.ok,
                    io |-> dnd_success.io + status_success.io]
              ELSE [active |-> FALSE, last |-> last, ret |-> FALSE,
                    dnd |-> 1, status |-> 1,
                    dnd_ok |-> dnd_success.ok, status_ok |-> status_success.ok,
                    io |-> dnd_success.io + status_success.io]
    ELSE [active |-> active, last |-> last, ret |-> TRUE,
          dnd |-> 0, status |-> 0, dnd_ok |-> FALSE, status_ok |-> FALSE,
          io |-> 0]

\* enable_deep_mode, setting the status only when the DND call failed
enable_deep_mode_ShortCircuit(cfg, active, last, now, r1, r2) ==
  IF NotDebounced(cfg, active, last, now)
    THEN LET dnd_success == set_slack_dnd(cfg, r1)
             status_success == IF dnd_success.ok THEN [ok |-> FALSE, io |-> 0]
                               ELSE set_slack_status(cfg, r2)
         IN IF dnd_success.ok \/ status_success.ok
              THEN [active |-> TRUE, last |-> now, ret |-> TRUE,
                    dnd |-> 1, status |-> (IF dnd_success.ok THEN 0 ELSE 1),
                    dnd_ok |-> dnd_success.ok, status_ok |-> status_success.ok,
                    io |-> dnd_success.io + status_success.io]
              ELSE [active |-> active, last |-> last, ret |-> FALSE,
                    dnd |-> 1, status |-> (IF dnd_success.ok THEN 0 ELSE 1),
                    dnd_ok |-> dnd_success.ok, status_ok |-> status_success.ok,
                    io |-> dnd_success.io + status_success.io]
    ELSE [active |-> active, last |-> last, ret |-> TRUE,
          dnd |-> 0, status |-> 0, dnd_ok |-> FALSE, status_ok |-> FALSE,
          io |-> 0]

\* enable_deep_mode called at time `now` with focus state (active, last);
\* r1, r2 are the API's answers to the two requests, were they sent.
\* dnd and status count the calls of set_slack_dnd and set_slack_status.
enable_deep_mode(cfg, active, last, now, r1, r2) ==
  IF NotDebounced(cfg, active, last, now)
    THEN LET dnd_success == set_slack_dnd(cfg, r1)
             status_success == set_slack_status(cfg, r2)
         IN IF dnd_success.ok \/ status_success.ok
              THEN [active |-> TRUE, last |-> now, ret |-> TRUE,
                    dnd |-> 1, status |-> 1,
                    dnd_ok |-> dnd_success.ok, status_ok |-> status_success.ok,
                    io |-> dnd_success.io + status_success.io]
              ELSE [active |-> active, last |-> last, ret |-> FALSE,
                    dnd |-> 1, status |-> 1,
                    dnd_ok |-> FALSE, status_ok |-> FALSE,
                    io |-> dnd_success.io + status_success.io]
    ELSE [active |-> active, last |-> last, ret |-> TRUE,
          dnd |-> 0, status |-> 0, dnd_ok |-> FALSE, status_ok |-> FALSE,
          io |-> 0]

\* ------------------------------------------------------------------ tracker
\* the tracker fields as one record
Tracker ==
  [current_app |-> current_app, app_start_time |-> app_start_time,
   continuous |-> continuous_coding_time, total |-> total_coding_time]

\* tick, crediting the counted intervals instead of the measured time when
\* a session ends
tick_CreditInterval(cfg, t, app_name, current_time) ==
  IF IsCoding(cfg.coding_apps, app_name)
    THEN LET changed == t.current_app # app_name
             flush == changed /\ t.app_start_time # None
                      /\ IsCoding(cfg.coding_apps, t.current_app)
         IN [current_app |-> IF changed THEN app_name ELSE t.current_app,
             app_start_time |-> IF changed THEN current_time
                                ELSE t.app_start_time,
             continuous |-> t.continuous + cfg.check_interval_seconds,
             total |-> IF flush
                         THEN t.total + (current_time - t.app_start_time)
                         ELSE t.total]
    ELSE IF t.continuous > 0
      THEN [current_app |-> app_name,
            app_start_time |-> None,
            continuous |-> 0,
            total |-> IF t.app_start_time # None
                        THEN t.total + t.continuous
                        ELSE t.total]
      ELSE [current_app |-> app_name,
            app_start_time |-> t.app_start_time,
            continuous |-> t.continuous,
            total |-> t.total]

\* tick, forgetting to flush the previous coding app's time on a switch
tick_NoFlushOnSwitch(cfg, t, app_name, current_time) ==
  IF IsCoding(cfg.coding_apps, app_name)
    THEN LET changed == t.current_app # app_name
         IN [current_app |-> IF changed THEN app_name ELSE t.current_app,
             app_start_time |-> IF changed THEN current_time
                                ELSE t.app_start_time,
             continuous |-> t.continuous + cfg.check_interval_seconds,
             total |-> t.total]
    ELSE IF t.continuous > 0
      THEN [current_app |-> app_name,
            app_start_time |-> None,
            continuous |-> 0,
            total |-> IF t.app_start_time # None
                        THEN t.total + (current_time - t.app_start_time)
                        ELSE t.total]
      ELSE [current_app |-> app_name,
            app_start_time |-> t.app_start_time,
            continuous |-> t.continuous,
            total |-> t.total]

\* tick, assigning the session's time to the total instead of adding it
tick_AssignOnEnd(cfg, t, app_name, current_time) ==
  IF IsCoding(cfg.coding_apps, app_name)
    THEN LET changed == t.current_app # app_name
             flush == changed /\ t.app_start_time # None
                      /\ IsCoding(cfg.coding_apps, t.current_app)
         IN [current_app |-> IF changed THEN app_name ELSE t.current_app,
             app_start_time |-> IF changed THEN current_time
                                ELSE t.app_start_time,
             continuous |-> t.continuous + cfg.check_interval_seconds,
             total |-> IF flush
                         THEN t.total + (current_time - t.app_start_time)
                         ELSE t.total]
    ELSE IF t.continuous > 0
      THEN [current_app |-> app_name,
            app_start_time |-> None,
            continuous |-> 0,
            total |-> IF t.app_start_time # None
                        THEN current_time - t.app_start_time
                        ELSE t.total]
      ELSE [current_app |-> app_name,
            app_start_time |-> t.app_start_time,
            continuous |-> t.continuous,
            total |-> t.total]

\* tick, restarting the continuous timer when the coding app changes
tick_ResetOnSwitch(cfg, t, app_name, current_time) ==
  IF IsCoding(cfg.coding_apps, app_name)
    THEN LET changed == t.current_app # app_name
             flush == changed /\ t.app_start_time # None
                      /\ IsCoding(cfg.coding_apps, t.current_app)
         IN [current_app |-> IF changed THEN app_name ELSE t.current_app,
             app_start_time |-> IF changed THEN current_time
                                ELSE t.app_start_time,
             continuous |-> IF changed THEN cfg.check_interval_seconds
                            ELSE t.continuous + cfg.check_interval_seconds,
             total |-> IF flush
                         THEN t.total + (current_time - t.app_start_time)
                         ELSE t.total]
    ELSE IF t.continuous > 0
      THEN [current_app |-> app_name,
            app_start_time |-> None,
            continuous |-> 0,
            total |-> IF t.app_start_time # None
                        THEN t.total + (current_time - t.app_start_time)
                        ELSE t.total]
      ELSE [current_app |-> app_name,
            app_start_time |-> t.app_start_time,
            continuous |-> t.continuous,
            total |-> t.total]

\* tick, restarting app_start_time on every coding tick
tick_RestartEveryTick(cfg, t, app_name, current_time) ==
  IF IsCoding(cfg.coding_apps, app_name)
    THEN LET changed == t.current_app # app_name
             flush == changed /\ t.app_start_time # None
                      /\ IsCoding(cfg.coding_apps, t.current_app)
         IN [current_app |-> IF changed THEN app_name ELSE t.current_app,
             app_start_time |-> current_time,
             continuous |-> t.continuous + cfg.check_interval_seconds,
             total |-> IF flush
                         THEN t.total + (current_time - t.app_start_time)
                         ELSE t.total]
    ELSE IF t.continuous > 0
      THEN [current_app |-> app_name,
            app_start_time |-> None,
            continuous |-> 0,
            total |-> IF t.app_start_time # None
                        THEN t.total + (current_time - t.app_start_time)
                        ELSE t.total]
      ELSE [current_app |-> app_name,
            app_start_time |-> t.app_start_time,
            continuous |-> t.continuous,
            total |-> t.total]

\* tick, flushing on a switch of coding app without moving app_start_time
tick_KeepStartOnSwitch(cfg, t, app_name, current_time) ==
  IF IsCoding(cfg.coding_apps, app_name)
    THEN LET changed == t.current_app # app_name
             flush == changed /\ t.app_start_time # None
                      /\ IsCoding(cfg.coding_apps, t.current_app)
         IN [current_app |-> IF changed THEN app_name ELSE t.current_app,
             app_start_time |-> IF t.app_start_time = None THEN current_time
                                ELSE t.app_start_time,
             continuous |-> t.continuous + cfg.check_interval_seconds,
             total |-> IF flush
                         THEN t.total + (current_time - t.app_start_time)
                         ELSE t.total]
    ELSE IF t.continuous > 0
      THEN [current_app |-> app_name,
            app_start_time |-> None,
            continuous |-> 0,
            total |-> IF t.app_start_time # None
                        THEN t.total + (current_time - t.app_start_time)
                        ELSE t.total]
      ELSE [current_app |-> app_name,
            app_start_time |-> t.app_start_time,
            continuous |-> t.continuous,
            total |-> t.total]

\* lines 221-239 and 245-259: what one due check does to the tracker
\* fields, given the sampled name and the loop's current_time
tick(cfg, t, app_name, current_time) ==
  IF IsCoding(cfg.coding_apps, app_name)
    THEN LET changed == t.current_app # app_name
             flush == changed /\ t.app_start_time # None
                      /\ IsCoding(cfg.coding_apps, t.current_app)
         IN [current_app |-> IF changed THEN app_name ELSE t.current_app,
             app_start_time |-> IF changed THEN current_time
                                ELSE t.app_start_time,
             continuous |-> t.continuous + cfg.check_interval_seconds,
             total |-> IF flush
                         THEN t.total + (current_time - t.app_start_time)
                         ELSE t.total]
    ELSE IF t.continuous > 0
      THEN [current_app |-> app_name,
            app_start_time |-> None,
            continuous |-> 0,
            total |-> IF t.app_start_time # None
                        THEN t.total + (current_time - t.app_start_time)
                        ELSE t.total]
      ELSE [current_app |-> app_name,
            app_start_time |-> t.app_start_time,
            continuous |-> t.continuous,
            total |-> t.total]

\* line 242 without its test of deep_mode_active
ShouldEngage_IgnoreActive(cfg, is_coding, continuous, active) ==
  is_coding /\ continuous >= cfg.deep_mode_threshold_seconds

\* line 242 with > for >=
ShouldEngage_Strict(cfg, is_coding, continuous, active) ==
  is_coding /\ continuous > cfg.deep_mode_threshold_seconds /\ ~active

\* line 242: whether the tick goes on to call enable_deep_mode
ShouldEngage(cfg, is_coding, continuous, active) ==
  is_coding /\ continuous >= cfg.deep_mode_threshold_seconds /\ ~active

\* ------------------------------------------------------------------ history
\* the result record of a tick that did not call enable_deep_mode
NoResult ==
  [active |-> FALSE, last |-> 0, ret |-> FALSE, dnd |-> 0, status |-> 0,
   dnd_ok |-> FALSE, status_ok |-> FALSE, io |-> 0]

\* the run of consecutive coding ticks in progress: its length, the total
\* when it began, the time app_start_time was first set in it (or None),
\* the calls of enable_deep_mode in it, the ticks on which the first of
\* them and the successful one happened (0: none), and deep_mode_active
\* when it began
NewRun(total, active) ==
  [ticks |-> 0, baseTotal |-> total, firstStart |-> None, engages |-> 0,
   firstEngage |-> 0, succTick |-> 0, startActive |-> active]

\* the call log keeps the latest MaxCalls calls
Logged(log, entry) ==
  IF Len(log) < MaxCalls THEN Append(log, entry)
  ELSE Append(Tail(log), entry)

CallEntry(now, res) ==
  [now |-> now, issued |-> (res.dnd + res.status > 0),
   ok |-> (res.dnd_ok \/ res.status_ok)]

\* last_success after a call at time now that made res.dnd and res.status
\* remote calls, answered r1 and r2
SuccessAfter(prev, now, res, r1, r2) ==
  IF (res.dnd = 1 /\ r1 = "ok") \/ (res.status = 1 /\ r2 = "ok")
    THEN now ELSE prev

\* --------------------------------------------------------------------- Init
\* __init__ (lines 38-43) and the first lines of start_monitoring
InitWith(configs) ==
  /\ config \in configs
  /\ current_app = EmptyName
  /\ app_start_time = None
  /\ continuous_coding_time = 0
  /\ total_coding_time = 0
  /\ deep_mode_active = FALSE
  /\ last_status_update = 0
  /\ clock = StartTime
  /\ last_app_check = StartTime
  /\ run = NewRun(0, FALSE)
  /\ ev = [kind |-> "init", app |-> EmptyName, coding |-> FALSE, now |-> StartTime,
           pre |-> [current_app |-> EmptyName, app_start_time |-> None,
                    continuous |-> 0, total |-> 0],
           preActive |-> FALSE, preLast |-> 0, preRun |-> NewRun(0, FALSE),
           engaged |-> FALSE, enow |-> StartTime, r1 |-> "unsent",
           r2 |-> "unsent", res |-> NoResult, query |-> Raised]
  /\ calls = << >>
  /\ last_success = None
  /\ pc = "loop"
  /\ final_report = None

\* the program started with a configuration holding every key
Init == InitWith(Configs)

\* the program started with whatever load_config returned
InitRun == InitWith(LoadedConfigs)

\* ------------------------------------------------------------------ actions
\* one loop iteration in which no check is due (line 215 is false)
Idle ==
  \E d \in 1..MaxSleep :
    LET current_time == clock + d IN
    /\ pc = "loop"
    /\ HasKey(config, "check_interval_seconds")
    /\ current_time <= MaxTime
    /\ current_time - last_app_check < config.check_interval_seconds
    /\ clock' = current_time
    /\ UNCHANGED << config, current_app, app_start_time, continuous_coding_time,
                    total_coding_time, deep_mode_active, last_status_update,
                    last_app_check, run, ev, calls, last_success, pc,
                    final_report >>

\* the run history after a tick
RunAfter(r, coding, t2, engaged, res, now, active2) ==
  IF coding
    THEN [ticks |-> r.ticks + 1,
          baseTotal |-> r.baseTotal,
          firstStart |-> IF r.firstStart = None /\ t2.app_start_time # None
                           THEN now ELSE r.firstStart,
          engages |-> r.engages + (IF engaged THEN 1 ELSE 0),
          firstEngage |-> IF engaged /\ r.firstEngage = 0
                            THEN r.ticks + 1 ELSE r.firstEngage,
          succTick |-> IF engaged /\ res.ret /\ r.succTick = 0
                         THEN r.ticks + 1 ELSE r.succTick,
          startActive |-> r.startActive]
    ELSE NewRun(t2.total, active2)

\* one loop iteration in which the check is due (lines 215-259) and line
\* 242 is false: sample, classify, update the tracker
TickQuiet ==
  \E d \in 1..MaxSleep, q \in Queries :
    LET current_time == clock + d
        app_name == Sampled[q]
        is_coding == IsCoding(config.coding_apps, app_name)
        t2 == tick(config, Tracker, app_name, current_time)
    IN
    /\ pc = "loop"
    /\ HasKey(config, "check_interval_seconds")
    /\ current_time <= MaxTime
    /\ current_time - last_app_check >= config.check_interval_seconds
    /\ ~ShouldEngage(config, is_coding, t2.continuous, deep_mode_active)
    /\ last_app_check' = current_time
    /\ current_app' = t2.current_app
    /\ app_start_time' = t2.app_start_time
    /\ continuous_coding_time' = t2.continuous
    /\ total_coding_time' = t2.total
    /\ clock' = current_time
    /\ run' = RunAfter(run, is_coding, t2, FALSE, NoResult, current_time,
                       deep_mode_active)
    /\ ev' = [kind |-> "tick", app |-> app_name, coding |-> is_coding,
              now |-> current_time, pre |-> Tracker,
              preActive |-> deep_mode_active, preLast |-> last_status_update,
              preRun |-> run, engaged |-> FALSE, enow |-> current_time,
              r1 |-> "unsent", r2 |-> "unsent", res |-> NoResult,
              query |-> q]
    /\ UNCHANGED << config, deep_mode_active, last_status_update, calls,
                    last_success, pc, final_report >>

\* one loop iteration in which the check is due and line 242 is true: the
\* same, then enable_deep_mode, which reads the clock again
TickEngage ==
  \E d \in 1..MaxSleep, q \in Queries, e \in 0..MaxLatency,
     r1 \in Responses(config), r2 \in Responses(config) :
    LET current_time == clock + d
        app_name == Sampled[q]
        is_coding == IsCoding(config.coding_apps, app_name)
        t2 == tick(config, Tracker, app_name, current_time)
        enow == current_time + e
        res == enable_deep_mode(config, deep_mode_active, last_status_update,
                                enow, r1, r2)
    IN
    /\ pc = "loop"
    /\ HasKey(config, "check_interval_seconds")
    /\ HasKey(config, "slack_token")
    /\ enow <= MaxTime
    /\ current_time - last_app_check >= config.check_interval_seconds
    /\ ShouldEngage(config, is_coding, t2.continuous, deep_mode_active)
    /\ last_app_check' = current_time
    /\ current_app' = t2.current_app
    /\ app_start_time' = t2.app_start_time
    /\ continuous_coding_time' = t2.continuous
    /\ total_coding_time' = t2.total
    /\ deep_mode_active' = res.active
    /\ last_status_update' = res.last
    /\ clock' = enow
    /\ run' = RunAfter(run, is_coding, t2, TRUE, res, current_time, res.active)
    /\ ev' = [kind |-> "tick", app |-> app_name, coding |-> is_coding,
              now |-> current_time, pre |-> Tracker,
              preActive |-> deep_mode_active, preLast |-> last_status_update,
              preRun |-> run, engaged |-> TRUE, enow |-> enow,
              r1 |-> r1, r2 |-> r2, res |-> res, query |-> q]
    /\ last_success' = SuccessAfter(last_success, enow, res, r1, r2)
    /\ UNCHANGED << config, calls, pc, final_report >>

\* a client calls enable_deep_mode directly, some time after the last call
EngageCall ==
  \E d \in 0..MaxSleep, r1 \in Responses(config), r2 \in Responses(config) :
    LET now == clock + d
        res == enable_deep_mode(config, deep_mode_active, last_status_update,
                                now, r1, r2)
    IN
    /\ now <= MaxTime
    /\ clock' = now
    /\ deep_mode_active' = res.active
    /\ last_status_update' = res.last
    /\ ev' = [kind |-> "engage", app |-> EmptyName, coding |-> FALSE,
              now |-> now, pre |-> Tracker,
              preActive |-> deep_mode_active, preLast |-> last_status_update,
              preRun |-> run, engaged |-> TRUE, enow |-> now,
              r1 |-> r1, r2 |-> r2, res |-> res, query |-> Raised]
    /\ calls' = Logged(calls, CallEntry(now, res))
    /\ last_success' = SuccessAfter(last_success, now, res, r1, r2)
    /\ UNCHANGED << config, current_app, app_start_time, continuous_coding_time,
                    total_coding_time, last_app_check, run, pc, final_report >>

\* the first iteration of the loop when check_interval_seconds is absent:
\* line 215 raises KeyError, line 280 catches it and the loop is over
LoopKeyError ==
  /\ pc = "loop"
  /\ ~HasKey(config, "check_interval_seconds")
  /\ pc' = "crashed"
  /\ UNCHANGED << config, current_app, app_start_time, continuous_coding_time,
                  total_coding_time, deep_mode_active, last_status_update,
                  clock, last_app_check, run, ev, calls, last_success,
                  final_report >>

\* a due check that goes on to enable_deep_mode when slack_token is absent:
\* the tracker is updated (lines 221-239), line 184 passes, set_slack_dnd
\* raises KeyError at line 115 outside its try, and line 280 ends the loop
TickEngageKeyError ==
  \E d \in 1..MaxSleep, q \in Queries :
    LET current_time == clock + d
        app_name == Sampled[q]
        is_coding == IsCoding(config.coding_apps, app_name)
        t2 == tick(config, Tracker, app_name, current_time)
    IN
    /\ pc = "loop"
    /\ HasKey(config, "check_interval_seconds")
    /\ ~HasKey(config, "slack_token")
    /\ current_time <= MaxTime
    /\ current_time - last_app_check >= config.check_interval_seconds
    /\ ShouldEngage(config, is_coding, t2.continuous, deep_mode_active)
    /\ last_app_check' = current_time
    /\ current_app' = t2.current_app
    /\ app_start_time' = t2.app_start_time
    /\ continuous_coding_time' = t2.continuous
    /\ total_coding_time' = t2.total
    /\ clock' = current_time
    /\ pc' = "crashed"
    /\ UNCHANGED << config, deep_mode_active, last_status_update, run, ev,
                    calls, last_success, final_report >>

\* Ctrl+C (lines 276-279): the loop ends and the total is logged
Interrupt ==
  /\ pc = "loop"
  /\ pc' = "stopped"
  /\ final_report' = total_coding_time
  /\ UNCHANGED << config, current_app, app_start_time, continuous_coding_time,
                  total_coding_time, deep_mode_active, last_status_update,
                  clock, last_app_check, run, ev, calls, last_success >>

\* between two iterations of the loop, a client calls enable_deep_mode (the
\* loop itself calls it only while deep_mode_active is false)
ClientEngage ==
  \E r1 \in Responses(config), r2 \in Responses(config) :
    LET res == enable_deep_mode(config, deep_mode_active, last_status_update,
                                clock, r1, r2)
    IN
    /\ deep_mode_active' = res.active
    /\ last_status_update' = res.last
    /\ ev' = [kind |-> "engage", app |-> EmptyName, coding |-> FALSE,
              now |-> clock, pre |-> Tracker,
              preActive |-> deep_mode_active, preLast |-> last_status_update,
              preRun |-> run, engaged |-> TRUE, enow |-> clock,
              r1 |-> r1, r2 |-> r2, res |-> res, query |-> Raised]
    /\ last_success' = SuccessAfter(last_success, clock, res, r1, r2)
    /\ UNCHANGED << config, current_app, app_start_time, continuous_coding_time,
                    total_coding_time, clock, last_app_check, run, calls, pc,
                    final_report >>

\* ----------------------------------------------------------- specifications
\* the program: the polling loop of start_monitoring
Next == Idle \/ TickQuiet \/ TickEngage

Spec == Init /\ [][Next]_vars

\* the program from whatever configuration was loaded to the end of
\* start_monitoring
NextRun ==
  \/ Idle \/ TickQuiet \/ TickEngage
  \/ LoopKeyError \/ TickEngageKeyError
  \/ Interrupt

SpecRun == InitRun /\ [][NextRun]_vars

\* the focus-mode controller driven call by call
NextEngage == EngageCall

SpecEngage == Init /\ [][NextEngage]_vars

\* the loop, with a client that also calls enable_deep_mode between its
\* iterations
NextClient == Idle \/ TickQuiet \/ TickEngage \/ ClientEngage

SpecClient == Init /\ [][NextClient]_vars

\* ------------------------------------------------------- claims on the loop
\* the last operation was a due check of the loop
Ticked == ev.kind = "tick"

\* C1: in every reachable state continuous_coding_time > 0 implies that
\* app_start_time is set and that current_app classifies as coding
C1_SessionHasStart ==
  continuous_coding_time > 0 =>
    /\ app_start_time # None
    /\ is_coding_app(config.coding_apps, current_app)

\* the last tick was a non-coding tick that ended a run of M >= 1 coding ticks
EndedRun == Ticked /\ ~ev.coding /\ ev.preRun.ticks >= 1

\* C2 as claimed: the non-coding tick after M coding ticks resets
\* continuous_coding_time and leaves total_coding_time larger than before the
\* session by exactly M * check_interval_seconds
C2_IntervalCredit ==
  EndedRun =>
    /\ continuous_coding_time = 0
    /\ total_coding_time =
         ev.preRun.baseTotal + ev.preRun.ticks * config.check_interval_seconds

\* C2 amended: the non-coding tick after M coding ticks resets
\* continuous_coding_time and leaves total_coding_time larger than before the
\* session by the clock time from the tick of the session that first set
\* app_start_time to the non-coding tick (by nothing if no tick set it)
C2_WallClockCredit ==
  EndedRun =>
    /\ continuous_coding_time = 0
    /\ total_coding_time =
         ev.preRun.baseTotal
           + (IF ev.preRun.firstStart = None THEN 0
              ELSE ev.now - ev.preRun.firstStart)

\* a session of three ticks with a flush on an app change has ended and was
\* credited more than its ticks' intervals
C2_Witness ==
  /\ EndedRun
  /\ ev.preRun.ticks >= 3
  /\ ev.pre.total > ev.preRun.baseTotal
  /\ total_coding_time >
       ev.preRun.baseTotal + ev.preRun.ticks * config.check_interval_seconds

\* the tick of a run on which continuous_coding_time first reaches the
\* threshold
FirstReach ==
  CHOOSE k \in 1..(MaxTime + 1) :
    /\ k * config.check_interval_seconds >= config.deep_mode_threshold_seconds
    /\ (k - 1) * config.check_interval_seconds
         < config.deep_mode_threshold_seconds

\* C3 as claimed: in a run of coding ticks that began with focus mode
\* inactive and has reached the threshold, enable_deep_mode was invoked
\* exactly once, on the tick that first reached the threshold
C3_EngagedOnce ==
  (~run.startActive /\ run.ticks >= FirstReach) =>
    /\ run.engages = 1
    /\ run.firstEngage = FirstReach

\* C3 amended: in such a run enable_deep_mode is invoked on the tick that
\* first reaches the threshold and again on every later tick for as long as
\* deep_mode_active is still false, that is up to and including the first
\* call that succeeds; before the threshold it is not invoked at all
C3_EngagedUntilActive ==
  ~run.startActive =>
    IF run.ticks >= FirstReach
      THEN /\ run.firstEngage = FirstReach
           /\ (run.succTick # 0) = deep_mode_active
           /\ run.engages =
                (IF run.succTick # 0 THEN run.succTick ELSE run.ticks)
                  - FirstReach + 1
      ELSE run.engages = 0 /\ ~deep_mode_active

\* a run in which a failed call was retried, the retry succeeded, and a
\* later tick of the run made no call
C3_Witness ==
  /\ ~run.startActive
  /\ run.engages >= 2
  /\ run.succTick # 0
  /\ run.ticks > run.succTick
  /\ Ticked /\ ev.coding /\ ~ev.engaged

\* the last tick was a coding tick under another name than current_app,
\* which was a coding app
SwitchedCodingApp ==
  /\ Ticked /\ ev.coding
  /\ ev.app # ev.pre.current_app
  /\ is_coding_app(config.coding_apps, ev.pre.current_app)

\* C9 as claimed: a coding tick under another name than the coding
\* current_app lets continuous_coding_time grow by one interval, adds the
\* time since app_start_time to total_coding_time and sets app_start_time to
\* the tick's time
C9_SwitchFlushes ==
  SwitchedCodingApp =>
    /\ continuous_coding_time
         = ev.pre.continuous + config.check_interval_seconds
    /\ total_coding_time = ev.pre.total + (ev.now - ev.pre.app_start_time)
    /\ app_start_time = ev.now

\* C9 amended: the same, the time being added when app_start_time is set;
\* when it is None, total_coding_time is left as it was
C9_SwitchFlushesIfStarted ==
  SwitchedCodingApp =>
    /\ continuous_coding_time
         = ev.pre.continuous + config.check_interval_seconds
    /\ total_coding_time =
         (IF ev.pre.app_start_time # None
            THEN ev.pre.total + (ev.now - ev.pre.app_start_time)
            ELSE ev.pre.total)
    /\ app_start_time = ev.now

\* a switch between two coding apps in the middle of a session, flushing
\* more than one interval
C9_Witness ==
  /\ SwitchedCodingApp
  /\ ev.pre.continuous > 0
  /\ ev.pre.app_start_time # None
  /\ total_coding_time > ev.pre.total + config.check_interval_seconds

\* C10: after N consecutive coding ticks from continuous_coding_time = 0,
\* continuous_coding_time equals N * check_interval_seconds
C10_ContinuousCountsTicks ==
  continuous_coding_time = run.ticks * config.check_interval_seconds

\* three coding ticks in a row, the last under a new coding app name
C10_Witness ==
  /\ run.ticks >= 3
  /\ SwitchedCodingApp
  /\ ev.pre.continuous > 0

\* ------------------------------------------- claims on enable_deep_mode
\* the last operation was a direct call of enable_deep_mode
Called == ev.kind = "engage"

\* the last call went past the test of line 184
CallNotDebounced ==
  ~ev.preActive
    \/ ev.enow - ev.preLast > config.status_update_interval_seconds

\* the last call's remote actions were both made and both failed
BothFailed ==
  /\ ev.res.dnd = 1 /\ ev.res.status = 1
  /\ ev.r1 # "ok" /\ ev.r2 # "ok"

\* C4 as claimed: of two calls no more than status_update_interval_seconds
\* apart, at most one issues the remote actions
C4_AtMostOneIssues ==
  \A i \in 1..Len(calls), j \in 1..Len(calls) :
    (i < j /\ calls[j].now - calls[i].now
                <= config.status_update_interval_seconds)
      => ~(calls[i].issued /\ calls[j].issued)

\* C4 amended: of two such calls both issue the remote actions only if both
\* remote actions of the earlier call failed; after an earlier call in
\* which one succeeded, the later call issues none
C4_AtMostOneIssuesAfterSuccess ==
  \A i \in 1..Len(calls), j \in 1..Len(calls) :
    (i < j /\ calls[j].now - calls[i].now
                <= config.status_update_interval_seconds)
      => ~(calls[i].issued /\ calls[i].ok /\ calls[j].issued)

\* three calls within the interval: the first succeeds, the other two are
\* debounced, the last exactly one interval after the first
C4_Witness ==
  /\ Len(calls) >= 3
  /\ calls[Len(calls) - 2].issued /\ calls[Len(calls) - 2].ok
  /\ calls[Len(calls)].now - calls[Len(calls) - 2].now
       = config.status_update_interval_seconds
  /\ ~calls[Len(calls)].issued

\* C5 as claimed: the call returns true exactly when deep_mode_active is
\* true after it
C5_ReturnIsActive ==
  Called => (ev.res.ret = deep_mode_active)

\* C5 amended: the call returns true exactly when it was debounced or one
\* of its remote actions succeeded, and then deep_mode_active is true after
\* it; it returns false when both fail, and deep_mode_active then keeps its
\* value, which may be true
C5_ReturnIsSuccess ==
  Called =>
    /\ ev.res.ret = (~CallNotDebounced \/ ev.r1 = "ok" \/ ev.r2 = "ok")
    /\ ev.res.ret => deep_mode_active
    /\ ~ev.res.ret => (deep_mode_active = ev.preActive)

\* a call returned false and left deep_mode_active true
C5_Witness ==
  Called /\ ~ev.res.ret /\ deep_mode_active

\* C6: when both remote actions fail, deep_mode_active and
\* last_status_update are as before the call and the call returns false
C6_FailureKeepsState ==
  (Called /\ BothFailed) =>
    /\ deep_mode_active = ev.preActive
    /\ last_status_update = ev.preLast
    /\ ~ev.res.ret

\* both remote actions failed in a call made while deep mode was active
C6_Witness ==
  Called /\ BothFailed /\ ev.preActive /\ ev.preLast > 0

\* C7: a call that is not debounced makes each remote call exactly once,
\* and if one of them succeeds deep_mode_active becomes true,
\* last_status_update the call's time and the call returns true
C7_BothAttempted ==
  (Called /\ CallNotDebounced) =>
    /\ ev.res.dnd = 1
    /\ ev.res.status = 1
    /\ (ev.r1 = "ok" \/ ev.r2 = "ok") =>
         /\ deep_mode_active
         /\ last_status_update = ev.enow
         /\ ev.res.ret

\* a re-arming call whose DND call succeeded and whose status call failed
C7_Witness ==
  /\ Called /\ CallNotDebounced
  /\ ev.preActive
  /\ ev.r1 = "ok" /\ ev.r2 = "failed"
  /\ last_status_update > ev.preLast

\* C8: a call made while deep_mode_active is true and at most
\* status_update_interval_seconds after last_status_update returns true,
\* makes no remote call and changes nothing
C8_Debounced ==
  (Called /\ ev.preActive
     /\ ev.enow - ev.preLast <= config.status_update_interval_seconds) =>
    /\ ev.res.ret
    /\ ev.res.dnd = 0 /\ ev.res.status = 0 /\ ev.res.io = 0
    /\ deep_mode_active = ev.preActive
    /\ last_status_update = ev.preLast

\* a debounced call exactly status_update_interval_seconds after the update
C8_Witness ==
  /\ Called /\ ev.preActive
  /\ ev.enow - ev.preLast = config.status_update_interval_seconds
  /\ ev.res.ret

\* ------------------------------------------------ more claims on the loop
\* C11: total_coding_time never decreases: after every step of the loop it
\* is at least what it was before
C11_TotalNeverDecreases ==
  [][total_coding_time' >= total_coding_time]_vars

\* a second session has ended and added its time to a total that already
\* held the first session's
C11_Witness ==
  /\ EndedRun
  /\ ev.preRun.baseTotal > 0
  /\ total_coding_time > ev.pre.total

\* C12: deep_mode_active never goes from true to false, and only a step
\* that calls enable_deep_mode changes deep_mode_active or
\* last_status_update
C12_FocusOnlyByEngage ==
  [][ /\ deep_mode_active => deep_mode_active'
      /\ (deep_mode_active' # deep_mode_active
            \/ last_status_update' # last_status_update)
           => (TickEngage \/ ClientEngage) ]_vars

\* a non-coding tick ended a session while deep mode was active, and deep
\* mode is still active with the same last_status_update
C12_Witness ==
  /\ EndedRun
  /\ ev.preActive
  /\ deep_mode_active
  /\ last_status_update = ev.preLast

\* C13: while deep_mode_active is true, last_status_update is not its
\* initial value but the time of the latest call of enable_deep_mode in
\* which a remote action succeeded
C13_ActiveHasStamp ==
  deep_mode_active =>
    /\ last_success # None
    /\ last_status_update = last_success
    /\ last_status_update # 0

\* a re-arming call made while deep mode was active succeeded and moved
\* last_status_update
C13_Witness ==
  /\ ev.kind = "engage"
  /\ ev.preActive
  /\ deep_mode_active
  /\ last_status_update > ev.preLast
  /\ ev.preLast > 0

\* C15: the loop ends only by the external interrupt, and then the final
\* log line reports total_coding_time
C15_OnlyInterruptEndsLoop ==
  pc # "loop" =>
    /\ pc = "stopped"
    /\ final_report = total_coding_time

\* C16: with no token configured (slack_token is empty), every call of
\* enable_deep_mode makes both remote calls, which send no request and
\* fail, the call returns false, and deep_mode_active is false in every
\* reachable state
C16_NoTokenNeverActive ==
  config.slack_token = "" =>
    /\ ~deep_mode_active
    /\ (Ticked /\ ev.engaged) =>
         /\ ev.res.dnd = 1 /\ ev.res.status = 1
         /\ ev.res.io = 0
         /\ ~ev.res.ret

\* without a token, a tick past the threshold called enable_deep_mode for
\* the third time in its run
C16_Witness ==
  /\ config.slack_token = ""
  /\ Ticked /\ ev.engaged
  /\ run.engages >= 3

\* C17: a tick calls enable_deep_mode if and only if its sample is coding,
\* continuous_coding_time after the tick's increment has reached the
\* threshold and deep_mode_active is false; a non-coding tick never calls it
C17_EngageIffThreshold ==
  Ticked =>
    /\ ev.engaged =
         (/\ ev.coding
          /\ ev.pre.continuous + config.check_interval_seconds
               >= config.deep_mode_threshold_seconds
          /\ ~ev.preActive)
    /\ ~ev.coding => ~ev.engaged

\* a coding tick brought continuous_coding_time exactly to the threshold
\* after more than one tick, and enable_deep_mode was called
C17_Witness ==
  /\ Ticked /\ ev.coding /\ ev.engaged
  /\ ev.pre.continuous > 0
  /\ continuous_coding_time = config.deep_mode_threshold_seconds

\* the last tick was a coding tick under the name current_app already had
SameAppTick == Ticked /\ ev.coding /\ ev.app = ev.pre.current_app

\* the last tick was a non-coding tick outside any session
IdleNonCodingTick == Ticked /\ ~ev.coding /\ ev.pre.continuous = 0

\* C18: a coding tick under the name of current_app changes only
\* continuous_coding_time (and what enable_deep_mode changes); a non-coding
\* tick at continuous_coding_time = 0 changes only current_app
C18_TickFrame ==
  /\ SameAppTick =>
       /\ current_app = ev.pre.current_app
       /\ app_start_time = ev.pre.app_start_time
       /\ total_coding_time = ev.pre.total
       /\ continuous_coding_time
            = ev.pre.continuous + config.check_interval_seconds
       /\ ~ev.engaged =>
            /\ deep_mode_active = ev.preActive
            /\ last_status_update = ev.preLast
  /\ IdleNonCodingTick =>
       /\ current_app = ev.app
       /\ app_start_time = ev.pre.app_start_time
       /\ total_coding_time = ev.pre.total
       /\ continuous_coding_time = 0
       /\ deep_mode_active = ev.preActive
       /\ last_status_update = ev.preLast

\* a coding tick in the middle of a session kept the app and its start time
C18_Witness ==
  /\ SameAppTick
  /\ ev.pre.continuous > 0
  /\ ev.pre.app_start_time # None
  /\ ev.now > ev.pre.app_start_time + config.check_interval_seconds

\* C19: in the loop, a tick taken while deep_mode_active is true never
\* calls enable_deep_mode, so no remote action is issued once deep mode is
\* active and the re-arm branch of line 184 is never reached
C19_NoEngageOnceActive ==
  Ticked =>
    /\ ev.preActive => (~ev.engaged /\ ev.res.dnd = 0 /\ ev.res.status = 0)
    /\ ev.engaged => ~ev.preActive

\* a later session reached the threshold while deep mode was still active
\* from an earlier one, and its tick made no call
C19_Witness ==
  /\ Ticked /\ ev.coding /\ ~ev.engaged
  /\ ev.preActive
  /\ run.startActive
  /\ run.ticks >= FirstReach

\* C20: total_coding_time is at most the time since the loop started, and
\* during a session it holds no time after app_start_time
C20_TotalWithinElapsed ==
  /\ total_coding_time <= clock - StartTime
  /\ app_start_time # None => total_coding_time <= app_start_time - StartTime

\* a second session is in progress after a switch of coding app, the first
\* having been flushed
C20_Witness ==
  /\ SwitchedCodingApp
  /\ ev.preRun.baseTotal > 0
  /\ total_coding_time > ev.pre.total
  /\ app_start_time = ev.now

\* --------------------------------------------------- claims on the sampler
\* the query of the frontmost application failed: the command raised, ended
\* with a non-zero exit status, or printed no name
QueryFailed(q) == q.raised \/ q.exit # 0 \/ strip(q.stdout) = << >>

\* C14: the sample of a tick is "Unknown" for every failed query and the
\* application name for a successful, non-empty one
C14_UnknownOnFailure ==
  Ticked =>
    ev.app = (IF QueryFailed(ev.query) THEN Unknown ELSE strip(ev.query.stdout))

====
